---- MODULE Spec2Model ----
(***************************************************************************)
(* Model of the data normalisation pipeline of the NIBRS dashboard         *)
(* (src/app.py): clean_colname, clean_dataframe and load_csv.              *)
(*                                                                         *)
(* A text (label or cell) is a sequence of characters; a character is a    *)
(* one-element string.  The two bytes 0x88 and 0x92 and the letter         *)
(* a-circumflex of the mis-decoded dash are the characters "a^", "x88" and *)
(* "x92".  A number is an integer count of tenths (1.5 is 15), the finest  *)
(* value the cells enumerated below contain.                               *)
(***************************************************************************)
EXTENDS Integers, Sequences, FiniteSets, TLC

(***************************************************************************)
(* Characters and plain string functions (Python str / re semantics).      *)
(***************************************************************************)
Digits == <<"0", "1", "2", "3", "4", "5", "6", "7", "8", "9">>

DigitChars == {Digits[i] : i \in 1..Len(Digits)}

\* Python's \s on the characters that occur here.
Whitespace == {" ", "\t", "\n", "\r"}

LowerLetters == {"a", "b", "c", "d", "e", "f", "g", "h", "i", "j", "k", "l", "m",
                 "n", "o", "p", "q", "r", "s", "t", "u", "v", "w", "x", "y", "z"}

UpperOf == [c \in LowerLetters |->
              CASE c = "a" -> "A" [] c = "b" -> "B" [] c = "c" -> "C" [] c = "d" -> "D" [] c = "e" -> "E" [] c = "f" -> "F"
                [] c = "g" -> "G" [] c = "h" -> "H" [] c = "i" -> "I" [] c = "j" -> "J" [] c = "k" -> "K" [] c = "l" -> "L"
                [] c = "m" -> "M" [] c = "n" -> "N" [] c = "o" -> "O" [] c = "p" -> "P" [] c = "q" -> "Q" [] c = "r" -> "R"
                [] c = "s" -> "S" [] c = "t" -> "T" [] c = "u" -> "U" [] c = "v" -> "V" [] c = "w" -> "W" [] c = "x" -> "X"
                [] c = "y" -> "Y" [] c = "z" -> "Z"]

\* Lower-casing of one character (re.IGNORECASE compares case-folded text).
LowerChar(c) ==
    IF \E l \in DOMAIN UpperOf : UpperOf[l] = c
    THEN CHOOSE l \in DOMAIN UpperOf : UpperOf[l] = c
    ELSE c

Lower(s) == [i \in 1..Len(s) |-> LowerChar(s[i])]

\* str.upper()
Upper(s) == [i \in 1..Len(s) |-> IF s[i] \in LowerLetters THEN UpperOf[s[i]] ELSE s[i]]

\* str.isalpha() on the characters that occur here
IsAlpha(s) == s # <<>> /\ \A i \in 1..Len(s) : LowerChar(s[i]) \in LowerLetters

\* sub in s
Contains(s, sub) == \E i \in 1..(Len(s) - Len(sub) + 1) : SubSeq(s, i, i + Len(sub) - 1) = sub

HasPrefix(s, p) == Len(s) >= Len(p) /\ SubSeq(s, 1, Len(p)) = p

RECURSIVE Replace(_, _, _)
\* str.replace(old, new): every non-overlapping occurrence, left to right.
Replace(s, old, new) ==
    IF s = <<>> THEN <<>>
    ELSE IF HasPrefix(s, old)
         THEN new \o Replace(SubSeq(s, Len(old) + 1, Len(s)), old, new)
         ELSE <<Head(s)>> \o Replace(Tail(s), old, new)

RECURSIVE CollapseWs(_)
\* re.sub(r"\s+", " ", s): each maximal run of whitespace becomes one space.
CollapseWs(s) ==
    IF s = <<>> THEN <<>>
    ELSE IF Head(s) \in Whitespace
         THEN IF Len(s) > 1 /\ s[2] \in Whitespace
              THEN CollapseWs(Tail(s))
              ELSE <<" ">> \o CollapseWs(Tail(s))
         ELSE <<Head(s)>> \o CollapseWs(Tail(s))

RECURSIVE LStrip(_)
LStrip(s) == IF s # <<>> /\ Head(s) \in Whitespace THEN LStrip(Tail(s)) ELSE s

RECURSIVE RStrip(_)
RStrip(s) ==
    IF s # <<>> /\ s[Len(s)] \in Whitespace THEN RStrip(SubSeq(s, 1, Len(s) - 1)) ELSE s

\* str.strip()
Strip(s) == RStrip(LStrip(s))

\* re.sub of a negated character class by "": keep only the characters of keep.
KeepOnly(s, keep) == SelectSeq(s, LAMBDA c : c \in keep)

\* str.replace(",", "")
DropCommas(s) == SelectSeq(s, LAMBDA c : c # ",")

AllDigits(s) == \A i \in 1..Len(s) : s[i] \in DigitChars

DigitVal(c) == (CHOOSE i \in 1..Len(Digits) : Digits[i] = c) - 1

RECURSIVE DigitsVal(_)
DigitsVal(s) == IF s = <<>> THEN 0 ELSE 10 * DigitsVal(SubSeq(s, 1, Len(s) - 1)) + DigitVal(s[Len(s)])

DotPos(s) == CHOOSE i \in 1..Len(s) : s[i] = "."

HasDot(s) == \E i \in 1..Len(s) : s[i] = "."

\* The regular expression ^-?\d+(\.\d+)?$ of the numeric test.
MatchesNumber(s) ==
    LET u == IF s # <<>> /\ Head(s) = "-" THEN Tail(s) ELSE s
    IN  IF HasDot(u)
        THEN LET ip == SubSeq(u, 1, DotPos(u) - 1)
                 fp == SubSeq(u, DotPos(u) + 1, Len(u))
             IN  ip # <<>> /\ AllDigits(ip) /\ fp # <<>> /\ AllDigits(fp)
        ELSE u # <<>> /\ AllDigits(u)

(***************************************************************************)
(* Cells, columns and tables (pandas Series / DataFrame).                  *)
(*   cell:   t = "str" (text s), "num" (v tenths) or "nan" (null)          *)
(*   column: label, dtype ("object", "int64", "float64"), cells            *)
(*   table:  columns and the row index, one entry per row                  *)
(***************************************************************************)
Str(s) == [t |-> "str", s |-> s, v |-> 0]

Num(v) == [t |-> "num", s |-> <<>>, v |-> v]

NaN == [t |-> "nan", s |-> <<>>, v |-> 0]

\* One whole number n as a count of tenths.
Whole(n) == 10 * n

Column(label, dtype, cells) == [label |-> label, dtype |-> dtype, cells |-> cells]

Frame(columns, index) == [kind |-> "frame", columns |-> columns, index |-> index]

\* pd.DataFrame(): no rows, no columns.
EmptyFrame == Frame(<<>>, <<>>)

\* An exception leaving the function instead of a table.
Raised == [kind |-> "raised", columns |-> <<>>, index |-> <<>>]

\* The absent input (df is None).
None == [kind |-> "none", columns |-> <<>>, index |-> <<>>]

\* A result not computed yet.
Pending == [kind |-> "pending", columns |-> <<>>, index |-> <<>>]

NRows(df) == Len(df.index)

NCols(df) == Len(df.columns)

\* DataFrame.empty: some axis has length 0.
IsEmpty(df) == NRows(df) = 0 \/ NCols(df) = 0

Labels(df) == [i \in 1..NCols(df) |-> df.columns[i].label]

HasLabel(t, label) == \E k \in 1..NCols(t) : t.columns[k].label = label

\* select_dtypes(include="number") keeps the column
IsNumericColumn(col) == col.dtype \in {"int64", "float64"}

\* RangeIndex(start, stop) as the list of its values.
RangeIndex(start, stop) == [i \in 1..(stop - start) |-> start + i - 1]

MapSeq(s, F(_)) == [i \in 1..Len(s) |-> F(s[i])]

(***************************************************************************)
(* Numbers to text and back (astype(str), pd.to_numeric).                  *)
(***************************************************************************)
RECURSIVE NatToStr(_)
NatToStr(n) == IF n < 10 THEN <<Digits[n + 1]>> ELSE NatToStr(n \div 10) \o <<Digits[(n % 10) + 1]>>

Abs(v) == IF v < 0 THEN -v ELSE v

\* str() of an int64 value.
IntToStr(v) == (IF v < 0 THEN <<"-">> ELSE <<>>) \o NatToStr(Abs(v) \div 10)

\* str() of a float64 value: 1.0, 2.5, -1.0.
FloatToStr(v) ==
    (IF v < 0 THEN <<"-">> ELSE <<>>) \o NatToStr(Abs(v) \div 10) \o <<".">> \o NatToStr(Abs(v) % 10)

\* Series.astype(str) on one cell of a column of the given dtype.
CellAsStr(cell, dtype) ==
    IF cell.t = "nan" THEN <<"n", "a", "n">>
    ELSE IF cell.t = "str" THEN cell.s
    ELSE IF dtype = "int64" THEN IntToStr(cell.v)
    ELSE FloatToStr(cell.v)

\* The unsigned part of a numeric literal the parser accepts: digits with at most
\* one decimal point and at least one digit ("12", "1.5", "1.", ".5").
IsUnsignedLiteral(u) ==
    IF HasDot(u)
    THEN LET ip == SubSeq(u, 1, DotPos(u) - 1)
             fp == SubSeq(u, DotPos(u) + 1, Len(u))
         IN  AllDigits(ip) /\ AllDigits(fp) /\ Len(ip) + Len(fp) > 0
    ELSE u # <<>> /\ AllDigits(u)

HasSign(s) == s # <<>> /\ Head(s) \in {"-", "+"}

Unsigned(s) == IF HasSign(s) THEN Tail(s) ELSE s

\* Whether pd.to_numeric parses the text (otherwise errors="coerce" gives NaN).
Parses(s) == IsUnsignedLiteral(Unsigned(s))

\* Whether the parsed text is an integer literal (no decimal point).
IsIntLiteral(s) == Parses(s) /\ ~HasDot(s)

\* The parsed value in tenths; fractional digits past the first are not kept.
ParsedValue(s) ==
    LET u == Unsigned(s)
        ip == IF HasDot(u) THEN SubSeq(u, 1, DotPos(u) - 1) ELSE u
        fp == IF HasDot(u) THEN SubSeq(u, DotPos(u) + 1, Len(u)) ELSE <<>>
        mag == 10 * DigitsVal(ip) + (IF fp = <<>> THEN 0 ELSE DigitVal(fp[1]))
    IN  IF s # <<>> /\ Head(s) = "-" THEN -mag ELSE mag

\* Variant: a text that does not parse is kept as it is (errors="ignore").
ToNumericCell_KeepText(s) == IF Parses(s) THEN Num(ParsedValue(s)) ELSE Str(s)

\* pd.to_numeric(x, errors="coerce") on one text.
ToNumericCell(s) == IF Parses(s) THEN Num(ParsedValue(s)) ELSE NaN

\* Variant: the rows that do not parse are dropped (a dropna after the parse).
ToNumeric_DropUnparsed(label, texts) ==
    Column(label, "float64", MapSeq(SelectSeq(texts, Parses), ToNumericCell))

\* pd.to_numeric on a list of texts: int64 when every text is an integer
\* literal, float64 as soon as one is a decimal or fails to parse.
ToNumeric(label, texts) ==
    Column(label,
           IF \A i \in 1..Len(texts) : IsIntLiteral(texts[i]) THEN "int64" ELSE "float64",
           MapSeq(texts, ToNumericCell))

(***************************************************************************)
(* clean_colname                                                           *)
(***************************************************************************)
Dash == <<"a^", "x88", "x92">>

\* Variant: the final strip() is missing.
clean_colname_NoStrip(s) ==
    LET s1 == Replace(s, <<"\n">>, <<" ">>)
        s2 == Replace(s1, Dash, <<"-">>)
        s3 == Replace(s2, Dash \o <<"1", "5">>, <<"-", "1", "5">>)
        s4 == Replace(s3, <<"N", "o", "v", "-", "1", "5">>, <<"1", "1", "-", "1", "5">>)
        s5 == Replace(s4, <<"?">>, <<"-">>)
    IN  CollapseWs(s5)

\* Variant: the replacement of "?" is missing.
clean_colname_KeepQuestion(s) ==
    LET s1 == Replace(s, <<"\n">>, <<" ">>)
        s2 == Replace(s1, Dash, <<"-">>)
        s3 == Replace(s2, Dash \o <<"1", "5">>, <<"-", "1", "5">>)
        s4 == Replace(s3, <<"N", "o", "v", "-", "1", "5">>, <<"1", "1", "-", "1", "5">>)
        s6 == CollapseWs(s4)
    IN  Strip(s6)

\* Labels are text here; the pd.isna(s) early return never applies to them.
clean_colname(s) ==
    LET s1 == Replace(s, <<"\n">>, <<" ">>)
        s2 == Replace(s1, Dash, <<"-">>)
        s3 == Replace(s2, Dash \o <<"1", "5">>, <<"-", "1", "5">>)
        s4 == Replace(s3, <<"N", "o", "v", "-", "1", "5">>, <<"1", "1", "-", "1", "5">>)
        s5 == Replace(s4, <<"?">>, <<"-">>)
        s6 == CollapseWs(s5)
    IN  Strip(s6)

(***************************************************************************)
(* The build: pandas before 2.0 has the class pd.Int64Index; pandas 2.0    *)
(* and later removed it, and naming it raises AttributeError.              *)
(***************************************************************************)
VARIABLES
    hasInt64Index,  \* the installed pandas still has pd.Int64Index
    df,             \* the raw table handed to clean_dataframe (or None)
    pc,             \* "start", "cleaned", "recleaned" or "loaded"
    result,         \* what clean_dataframe(df) gave: a table, or an exception
    result2,        \* what clean_dataframe(result) gave
    source,         \* state of the file load_csv was asked for
    reads,          \* the encodings load_csv tried, in order
    loaded,         \* what load_csv returned: the table held in loaded_data
    ui,             \* what the last chart call put on the page
    idCol,          \* the id_col the last create_interactive_chart call was given
    files,          \* per file name: the state and content of the file on disk
    cache,          \* st.cache_data's entries for load_csv, per file name
    lock,           \* per file name: the session holding its compute lock, or 0
    session,        \* per session: where its load_csv call stands, and for which name
    computed,       \* per file name: how often the body of load_csv ran
    returned,       \* per file name: what the calls so far gave their callers
    ncalls,         \* load_csv calls made so far
    nchanges,       \* changes made to files so far
    agency,         \* the table handed to agency_table_with_filters
    session_state,  \* st.session_state of the session showing the agency page
    event,          \* what the user did last on the agency page
    renders         \* what the script runs of the last event put on the page

cacheVars == <<files, cache, lock, session, computed, returned, ncalls, nchanges>>

pageVars == <<agency, session_state, event, renders>>

vars == <<hasInt64Index, df, pc, result, result2, source, reads, loaded, ui, idCol, cacheVars, pageVars>>

(***************************************************************************)
(* clean_dataframe, step by step                                           *)
(***************************************************************************)
\* df.columns = [clean_colname(c) for c in df.columns]
CleanLabels(columns) ==
    [i \in 1..Len(columns) |-> [columns[i] EXCEPT !.label = clean_colname(@)]]

Unnamed == <<"U", "n", "n", "a", "m", "e", "d">>

\* df.columns.str.match(r"^Unnamed", na=False)
IsUnnamed(label) == HasPrefix(label, Unnamed)

\* Variant: the placeholder is matched in any letter case.
DropUnnamed_AnyCase(columns) == SelectSeq(columns, LAMBDA c : ~HasPrefix(Lower(c.label), Lower(Unnamed)))

\* df.loc[:, ~df.columns.str.match(r"^Unnamed", na=False)]
DropUnnamed(columns) == SelectSeq(columns, LAMBDA c : ~IsUnnamed(c.label))

\* A label carried by two columns: df[col] is then a DataFrame, which has no
\* attribute dtype, and the coercion loop raises AttributeError.
HasDuplicateLabel(columns) ==
    \E i, j \in 1..Len(columns) : i # j /\ columns[i].label = columns[j].label

\* df[col].dtype == object or is_string_dtype(df[col].dtype)
IsTextDtype(col) == col.dtype = "object"

\* df[col].astype(str).str.replace(",", "").str.strip()
Cleaned(col) == [i \in 1..Len(col.cells) |-> Strip(DropCommas(CellAsStr(col.cells[i], col.dtype)))]

\* Variant: the minus sign is not kept.
MatchChars_NoMinus == DigitChars \cup {"."}

MatchChars == DigitChars \cup {".", "-"}

\* Variant: the match is made on the cleaned cell, letters and all.
CleanedForMatch_KeepLetters(col) == Cleaned(col)

\* cleaned.str.replace(r'[^\d\.\-]', '', regex=True)
CleanedForMatch(col) == MapSeq(Cleaned(col), LAMBDA s : KeepOnly(s, MatchChars))

\* cleaned_for_match[cleaned_for_match.notna() & (cleaned_for_match != "")]
NonNull(texts) == SelectSeq(texts, LAMBDA s : s # <<>>)

\* non_null.str.match(r"^-?\d+(\.\d+)?$")
NumericMatch(texts) == MapSeq(texts, MatchesNumber)

CountTrue(bs) == Cardinality({i \in 1..Len(bs) : bs[i]})

\* numeric_ratio >= 0.5 or numeric_match.all()
ShouldCoerce(matches) ==
    \/ 2 * CountTrue(matches) >= Len(matches)
    \/ \A i \in 1..Len(matches) : matches[i]

\* Variant: a column that is not converted is stored as its cleaned text.
CoerceColumn_StoresCleaned(col) ==
    IF ~IsTextDtype(col) THEN col
    ELSE LET cleaned_for_match == CleanedForMatch(col)
             non_null == NonNull(cleaned_for_match)
         IN  IF Len(non_null) = 0 THEN col
             ELSE IF ShouldCoerce(NumericMatch(non_null))
                  THEN ToNumeric(col.label, cleaned_for_match)
                  ELSE Column(col.label, "object", MapSeq(Cleaned(col), Str))

\* Variant: the test of line 160 for no non-empty match-value is missing.
CoerceColumn_NoSkip(col) ==
    IF ~IsTextDtype(col) THEN col
    ELSE LET cleaned_for_match == CleanedForMatch(col)
             non_null == NonNull(cleaned_for_match)
         IN  IF ShouldCoerce(NumericMatch(non_null))
             THEN ToNumeric(col.label, cleaned_for_match)
             ELSE Column(col.label, "object", col.cells)

\* The body of the coercion loop for one column.
CoerceColumn(col) ==
    IF ~IsTextDtype(col) THEN col
    ELSE LET cleaned_for_match == CleanedForMatch(col)
             non_null == NonNull(cleaned_for_match)
         IN  IF Len(non_null) = 0 THEN col
             ELSE IF ShouldCoerce(NumericMatch(non_null))
                  THEN ToNumeric(col.label, cleaned_for_match)
                  ELSE Column(col.label, "object", col.cells)

IndexPrefixes ==
    { <<"u", "n", "n", "a", "m", "e", "d", ":", " ", "0">>,
      <<"i", "n", "d", "e", "x">>,
      <<"r", "o", "w">>,
      <<"#">> }

IndexExact ==
    { <<"n", "o">>, <<"n", "o", ".">>, <<"s", " ", "n", "o">>,
      <<"s", "r", "n">>, <<"s", "r", ".", "n">>, <<"s", "r", " ", "n", "o">>,
      <<"i", "d">> }

\* index_like_pattern.match(c.strip()) with re.IGNORECASE
IsIndexLike(label) ==
    LET l == Lower(Strip(label))
    IN  (\E p \in IndexPrefixes : HasPrefix(l, p)) \/ l \in IndexExact

\* next((c for c in df.columns if ...), None): position of the first index-like
\* column, 0 for None.
IndexLikeCol(columns) ==
    IF \E i \in 1..Len(columns) : IsIndexLike(columns[i].label)
    THEN CHOOSE i \in 1..Len(columns) :
            /\ IsIndexLike(columns[i].label)
            /\ \A j \in 1..(i - 1) : ~IsIndexLike(columns[j].label)
    ELSE 0

ConvChars == DigitChars \cup {"-", "+", "."}

\* pd.to_numeric(df[c].astype(str).str.replace(r'[^\d\-\+\.]', ''), errors="coerce")
Conv(col) ==
    [i \in 1..Len(col.cells) |->
        ToNumericCell(KeepOnly(CellAsStr(col.cells[i], col.dtype), ConvChars))]

\* conv.astype(int)
ConvInts(conv) == [i \in 1..Len(conv) |-> conv[i].v \div 10]

\* Variant: the values need not differ.
Adoptable_WholeOnly(conv) ==
    /\ \A i \in 1..Len(conv) : conv[i].t = "num"
    /\ \A i \in 1..Len(conv) : conv[i].v % 10 = 0

\* conv.notna().all(), ((conv % 1) == 0).all(), conv.astype(int).nunique() == len(df)
Adoptable(conv) ==
    /\ \A i \in 1..Len(conv) : conv[i].t = "num"
    /\ \A i \in 1..Len(conv) : conv[i].v % 10 = 0
    /\ Cardinality({conv[i].v \div 10 : i \in 1..Len(conv)}) = Len(conv)

\* df.drop(columns=[index_like_col])
DropAt(columns, k) == [i \in 1..(Len(columns) - 1) |-> IF i < k THEN columns[i] ELSE columns[i + 1]]

\* Variant: the uniqueness test of line 189 is missing.
Adopts_RepeatsAllowed(columns) ==
    /\ IndexLikeCol(columns) # 0
    /\ LET conv == Conv(columns[IndexLikeCol(columns)])
       IN  \A i \in 1..Len(conv) : conv[i].t = "num" /\ conv[i].v % 10 = 0

\* Whether the index-like column is adopted as row index.
Adopts(columns) ==
    /\ IndexLikeCol(columns) # 0
    /\ Adoptable(Conv(columns[IndexLikeCol(columns)]))

\* Variant: the default index is left 0-based.
IndexStep_ZeroBased(columns, n) ==
    IF Adopts(columns)
    THEN IF hasInt64Index
         THEN Frame(DropAt(columns, IndexLikeCol(columns)),
                    ConvInts(Conv(columns[IndexLikeCol(columns)])))
         ELSE Raised
    ELSE Frame(columns, RangeIndex(0, n))

\* Lines 174-208: reset the index, adopt the index-like column or number the
\* rows from 1. After an adoption the index is no RangeIndex and the test of
\* line 202 names pd.Int64Index.
IndexStep(columns, n) ==
    IF Adopts(columns)
    THEN IF hasInt64Index
         THEN Frame(DropAt(columns, IndexLikeCol(columns)),
                    ConvInts(Conv(columns[IndexLikeCol(columns)])))
         ELSE Raised
    ELSE Frame(columns, RangeIndex(1, n + 1))

\* Variant: without the copy the relabelling of line 142 reaches the caller.
CallerTableAfter_NoCopy(t) ==
    IF t.kind = "none" \/ IsEmpty(t) THEN t
    ELSE [t EXCEPT !.columns = CleanLabels(t.columns)]

\* The caller's table after the call: line 139 rebinds df to df.copy() and
\* every later statement works on the copy.
CallerTableAfter(t) == t

clean_dataframe(t) ==
    IF t.kind = "none" \/ IsEmpty(t) THEN EmptyFrame
    ELSE LET kept == DropUnnamed(CleanLabels(t.columns))
         IN  IF HasDuplicateLabel(kept) THEN Raised
             ELSE IndexStep(MapSeq(kept, CoerceColumn), NRows(t))

(***************************************************************************)
(* Inputs: raw tables as pd.read_csv delivers them.  A raw table takes a   *)
(* header of at most MaxCols labels, for each column one of Patterns, and  *)
(* 0..MaxRows rows; a column's cells repeat its pattern.                   *)
(***************************************************************************)
MaxRows == 3

MaxCols == 2

\* the column of the Population1 scenario
PThousands == [dtype |-> "object", cells |-> <<Str(<<"1", ",", "2", "3", "4">>), Str(<<"5", ",", "6", "7", "8">>), Str(<<>>)>>]

\* one numeric-looking cell in three
PStates == [dtype |-> "object", cells |-> <<Str(<<"A", "l", "a", "b", "a", "m", "a">>), Str(<<"A", "l", "a", "s", "k", "a">>), Str(<<"1">>)>>]

\* numeric once the letters are stripped
PStripped == [dtype |-> "object", cells |-> <<Str(<<"1">>), Str(<<"2">>), Str(<<"x", "1">>)>>]

\* distinct integers as text, not sorted
PIds == [dtype |-> "object", cells |-> <<Str(<<"3">>), Str(<<"1">>), Str(<<"2">>)>>]

\* integers read as int64, the third repeats the first
PIntDup == [dtype |-> "int64", cells |-> <<Num(20), Num(10), Num(20)>>]

\* "1." fails the pattern and still parses
PTrailingDot == [dtype |-> "object", cells |-> <<Str(<<"1">>), Str(<<"1", ".">>), Str(<<"x">>)>>]

\* no cell matches the pattern; "4." and "2." parse
PDots == [dtype |-> "object", cells |-> <<Str(<<"4", ".">>), Str(<<"2", ".">>), Str(<<"1", "-", "2">>)>>]

\* no cell keeps a digit
PNulls == [dtype |-> "object", cells |-> <<NaN, Str(<<"N", "/", "A">>), NaN>>]

\* decimals read as float64, with a null
PFloat == [dtype |-> "float64", cells |-> <<Num(15), NaN, Num(20)>>]

\* a leading and an inner minus sign
PSigned == [dtype |-> "object", cells |-> <<Str(<<"-", "1">>), Str(<<"2", ".", "5">>), Str(<<"1", "-", "2">>)>>]

\* ranges written with an inner minus sign, and one plain number
PRanges == [dtype |-> "object", cells |-> <<Str(<<"1", "-", "2">>), Str(<<"2", "0", "2", "0", "-", "2", "1">>), Str(<<"3">>)>>]

Patterns == {PRanges, PThousands, PStates, PStripped, PIds, PIntDup, PTrailingDot, PDots, PNulls, PFloat, PSigned}

LState == <<"S", "t", "a", "t", "e">>

LId == <<"i", "d">>

LIdUpper == <<"I", "D">>

LIndex == <<"i", "n", "d", "e", "x">>

LUnnamed0 == <<"U", "n", "n", "a", "m", "e", "d", ":", " ", "0">>

LUnnamed1Padded == <<" ", "U", "n", "n", "a", "m", "e", "d", ":", " ", "1">>

LRowNo == <<"R", "o", "w", " ", "N", "o">>

LPopulation == <<"P", "o", "p", "u", "l", "a", "t", "i", "o", "n", "1">>

LVictimsAge == <<"V", "i", "c", "t", "i", "m", "s", "\n", "A", "g", "e">>

LNovQ == <<"N", "o", "v", "?", "1", "5">>

LNov == <<"1", "1", "-", "1", "5">>

LAqB == <<"A", "?", "B">>

LAdB == <<"A", "-", "B">>

LHash == <<"#">>

LNo == <<"N", "o">>

LNoDot == <<"N", "o", ".">>

LSNo == <<"S", " ", "N", "o">>

LSrN == <<"S", "r", ".", "N">>

LSrNo == <<"S", "r", " ", "N", "o">>

LUnnamedLower == <<"u", "n", "n", "a", "m", "e", "d", ":", " ", "0">>

LNov15 == <<"N", "o", "v", "-", "1", "5">>

LNovDash == <<"N", "o", "v", "a^", "x88", "x92", "1", "5">>

LSpaced == <<" ", "A", " ", "\t", " ", "B", " ">>

AllHeaders ==
    { <<>>,
      <<LState>>,
      <<LId>>,
      <<LUnnamed0>>,
      <<LNovQ>>,
      <<LVictimsAge>>,
      <<LHash>>,
      <<LNo>>,
      <<LNoDot>>,
      <<LSNo>>,
      <<LSrN>>,
      <<LSrNo>>,
      <<LUnnamedLower>>,
      <<LNov15>>,
      <<LNovDash>>,
      <<LSpaced>>,
      <<LId, LState>>,
      <<LState, LIdUpper>>,
      <<LAqB, LAdB>>,
      <<LUnnamed0, LPopulation>>,
      <<LUnnamed1Padded, LRowNo>>,
      <<LIndex, LId>>,
      <<LNovQ, LNov>>,
      <<LState, LState>>,
      <<LId, LState, LPopulation>> }

Headers == {h \in AllHeaders : Len(h) <= MaxCols}

\* Row i of a column that repeats pattern p.
PatternCell(p, i) == p.cells[((i - 1) % Len(p.cells)) + 1]

RawColumn(label, p, n) == Column(label, p.dtype, [i \in 1..n |-> PatternCell(p, i)])

\* The raw table with header h, pattern choice[k] in column k and n rows, under
\* the 0-based RangeIndex read_csv gives.
RawTable(h, choice, n) ==
    Frame([k \in 1..Len(h) |-> RawColumn(h[k], choice[k], n)], RangeIndex(0, n))

RawTables ==
    UNION { { RawTable(h, choice, n) : choice \in [1..Len(h) -> Patterns], n \in 0..MaxRows } :
            h \in Headers }

\* text that is no number, with commas and blanks around it
PPadded == [dtype |-> "object", cells |-> <<Str(<<" ", "1", ".", "2", ".", "3", ",", " ", "r", "e", "v", " ">>), Str(<<"N", "o", "m", "e", ",", " ", "A", "K">>), Str(<<"v", ".", "1", ",", "0", " ">>)>>]

\* nothing is left of any cell once commas and blanks are stripped
PBlank == [dtype |-> "object", cells |-> <<NaN, Str(<<" ", " ">>), Str(<<" ", ",", " ">>)>>]

\* Tables whose columns all hold such text.
TextTables ==
    { RawTable(h, [k \in 1..Len(h) |-> p], n) :
        h \in {<<LState>>, <<LId, LState>>}, p \in {PPadded, PBlank}, n \in 0..MaxRows }

Inputs == RawTables \cup TextTables \cup {None}

(***************************************************************************)
(* load_csv (the body under st.cache_data)                                 *)
(***************************************************************************)
\* The file: absent, readable as UTF-8, readable only as latin-1, or not
\* readable by pd.read_csv at all.
SourceStates == {"missing", "utf8", "latin1", "unreadable"}

\* The pd.read_csv calls load_csv makes, by encoding.
\* Variant: no second attempt after a failed read.
ReadsOf_NoRetry(src) ==
    IF src = "missing" THEN <<>> ELSE <<"utf-8">>

ReadsOf(src) ==
    CASE src = "missing" -> <<>>
      [] src = "utf8" -> <<"utf-8">>
      [] OTHER -> <<"utf-8", "latin-1">>

\* Variant: the failure of the latin-1 retry is not caught.
load_csv_RetryUncaught(src, t) ==
    IF src = "missing" THEN EmptyFrame
    ELSE IF src = "unreadable" THEN Raised
    ELSE clean_dataframe(t)

\* What load_csv returns for a file in state src whose content parses to t.
load_csv(src, t) ==
    IF src = "missing" THEN EmptyFrame
    ELSE IF src = "unreadable" THEN EmptyFrame
    ELSE clean_dataframe(t)

(***************************************************************************)
(* The state machine                                                       *)
(***************************************************************************)
\* No load_csv call through the cache is under way.
NoCacheUse ==
    /\ files = <<>>
    /\ cache = <<>>
    /\ lock = <<>>
    /\ session = <<>>
    /\ computed = <<>>
    /\ returned = <<>>
    /\ ncalls = 0
    /\ nchanges = 0

\* A script run no widget of the agency page asked for.
NoEvent == [kind |-> "none", search |-> <<>>, sel |-> {}, page |-> 0, size |-> 0]

\* The agency page is not opened.
NoPageUse ==
    /\ agency = None
    /\ session_state = <<>>
    /\ event = NoEvent
    /\ renders = <<>>

Init ==
    /\ hasInt64Index \in BOOLEAN
    /\ df \in Inputs
    /\ pc = "start"
    /\ result = Pending
    /\ result2 = Pending
    /\ source = "none"
    /\ reads = <<>>
    /\ loaded = Pending
    /\ ui = "nothing"
    /\ idCol = <<>>
    /\ NoCacheUse
    /\ NoPageUse

\* A caller applies clean_dataframe to the raw table.
Clean ==
    /\ pc = "start"
    /\ result' = clean_dataframe(df)
    /\ df' = CallerTableAfter(df)
    /\ pc' = "cleaned"
    /\ UNCHANGED <<hasInt64Index, result2, source, reads, loaded, ui, idCol, cacheVars, pageVars>>

\* The caller applies clean_dataframe to the table it got back.
CleanAgain ==
    /\ pc = "cleaned"
    /\ result.kind = "frame"
    /\ result2' = clean_dataframe(result)
    /\ result' = CallerTableAfter(result)
    /\ pc' = "recleaned"
    /\ UNCHANGED <<hasInt64Index, df, source, reads, loaded, ui, idCol, cacheVars, pageVars>>

\* load_csv on a file whose content is the raw table.
LoadCsv ==
    /\ pc = "start"
    /\ df.kind = "frame"
    /\ \E src \in SourceStates :
          /\ source' = src
          /\ reads' = ReadsOf(src)
          /\ loaded' = load_csv(src, df)
    /\ pc' = "loaded"
    /\ UNCHANGED <<hasInt64Index, df, result, result2, ui, idCol, cacheVars, pageVars>>

Next == Clean \/ CleanAgain \/ LoadCsv

Spec == Init /\ [][Next]_vars

(***************************************************************************)
(* The chart functions that receive a table of loaded_data                 *)
(***************************************************************************)
\* Python's min over a non-empty set of positions.
Min(S) == CHOOSE x \in S : \A y \in S : x <= y

\* Lines 384-385 on one numeric column: astype(str), commas removed,
\* pd.to_numeric(errors='coerce'), fillna(0).
ChartCleanColumn(col) ==
    LET parsed == ToNumeric(col.label,
                            [i \in 1..Len(col.cells) |-> DropCommas(CellAsStr(col.cells[i], col.dtype))])
    IN  [parsed EXCEPT !.cells = MapSeq(parsed.cells, LAMBDA c : IF c = NaN THEN Num(0) ELSE c)]

\* create_interactive_chart without the check of lines 374-376.
create_interactive_chart_AnyIdCol(t, id_col) ==
    IF t.kind = "none" \/ IsEmpty(t)
    THEN [ui |-> "warning: empty", df |-> t]
    ELSE IF \A k \in 1..NCols(t) : ~IsNumericColumn(t.columns[k])
    THEN [ui |-> "warning: no numeric columns", df |-> t]
    ELSE [ui |-> "chart", df |-> t]

\* create_interactive_chart(df, id_col, ...): what it puts on the page and what
\* the table it was handed holds afterwards. The figure itself is not modelled.
create_interactive_chart(t, id_col) ==
    IF t.kind = "none" \/ IsEmpty(t)
    THEN [ui |-> "warning: empty", df |-> t]
    ELSE IF ~HasLabel(t, id_col)
    THEN [ui |-> "warning: missing column", df |-> t]
    ELSE IF \A k \in 1..NCols(t) : ~IsNumericColumn(t.columns[k])
    THEN [ui |-> "warning: no numeric columns", df |-> t]
    ELSE [ui |-> "chart",
          df |-> [t EXCEPT !.columns =
                     MapSeq(t.columns, LAMBDA c : IF IsNumericColumn(c) THEN ChartCleanColumn(c) ELSE c)]]

LStateLower == <<"s", "t", "a", "t", "e">>

\* Lines 1340-1349: position of the state column, 0 for None.
StateCol(t) ==
    LET exact == {k \in 1..NCols(t) : Lower(Strip(t.columns[k].label)) = LStateLower}
        partial == {k \in 1..NCols(t) : Contains(Lower(t.columns[k].label), LStateLower)}
    IN  IF exact # {} THEN Min(exact) ELSE IF partial # {} THEN Min(partial) ELSE 0

AgencyCandidates ==
    << <<"N", "u", "m", "b", "e", "r", " ", "o", "f", " ", "P", "a", "r", "t", "i", "c", "i", "p", "a", "t", "i", "n", "g", " ", "A", "g", "e", "n", "c", "i", "e", "s">>,
       <<"P", "o", "p", "u", "l", "a", "t", "i", "o", "n", " ", "C", "o", "v", "e", "r", "e", "d">>,
       <<"P", "o", "p", "u", "l", "a", "t", "i", "o", "n">>,
       <<"N", "u", "m", "b", "e", "r", " ", "o", "f", " ", "A", "g", "e", "n", "c", "i", "e", "s">>,
       <<"P", "a", "r", "t", "i", "c", "i", "p", "a", "t", "i", "n", "g", " ", "A", "g", "e", "n", "c", "i", "e", "s">>,
       <<"A", "g", "e", "n", "c", "i", "e", "s">> >>

\* Lines 1351-1363: the first candidate name some column carries, else the
\* first numeric column; 0 for None.
AgenciesCol(t) ==
    LET carries(i) == {k \in 1..NCols(t) : Lower(t.columns[k].label) = Lower(AgencyCandidates[i])}
        hits == {i \in 1..Len(AgencyCandidates) : carries(i) # {}}
        numeric == {k \in 1..NCols(t) : IsNumericColumn(t.columns[k])}
    IN  IF hits # {} THEN Min(carries(Min(hits)))
        ELSE IF numeric # {} THEN Min(numeric) ELSE 0

\* Line 1375: the agencies column parsed again, without fillna.
HeatmapCoerce(col) ==
    ToNumeric(col.label,
              [i \in 1..Len(col.cells) |-> Strip(DropCommas(CellAsStr(col.cells[i], col.dtype)))])

\* Lines 1379-1383 on one cell of the state column.
maybe_state_code(cell, dtype) ==
    LET s == Strip(CellAsStr(cell, dtype))
    IN  Str(IF Len(s) = 2 /\ IsAlpha(s) THEN Upper(s) ELSE s)

StateMapSimple ==
    { <<<<"a", "l", "a", "b", "a", "m", "a">>, <<"A", "L">>>>,
      <<<<"a", "l", "a", "s", "k", "a">>, <<"A", "K">>>>,
      <<<<"a", "r", "i", "z", "o", "n", "a">>, <<"A", "Z">>>>,
      <<<<"a", "r", "k", "a", "n", "s", "a", "s">>, <<"A", "R">>>>,
      <<<<"c", "a", "l", "i", "f", "o", "r", "n", "i", "a">>, <<"C", "A">>>>,
      <<<<"c", "o", "l", "o", "r", "a", "d", "o">>, <<"C", "O">>>>,
      <<<<"c", "o", "n", "n", "e", "c", "t", "i", "c", "u", "t">>, <<"C", "T">>>>,
      <<<<"d", "e", "l", "a", "w", "a", "r", "e">>, <<"D", "E">>>>,
      <<<<"f", "l", "o", "r", "i", "d", "a">>, <<"F", "L">>>>,
      <<<<"g", "e", "o", "r", "g", "i", "a">>, <<"G", "A">>>>,
      <<<<"h", "a", "w", "a", "i", "i">>, <<"H", "I">>>>,
      <<<<"i", "d", "a", "h", "o">>, <<"I", "D">>>>,
      <<<<"i", "l", "l", "i", "n", "o", "i", "s">>, <<"I", "L">>>>,
      <<<<"i", "n", "d", "i", "a", "n", "a">>, <<"I", "N">>>>,
      <<<<"i", "o", "w", "a">>, <<"I", "A">>>>,
      <<<<"k", "a", "n", "s", "a", "s">>, <<"K", "S">>>>,
      <<<<"k", "e", "n", "t", "u", "c", "k", "y">>, <<"K", "Y">>>>,
      <<<<"l", "o", "u", "i", "s", "i", "a", "n", "a">>, <<"L", "A">>>>,
      <<<<"m", "a", "i", "n", "e">>, <<"M", "E">>>>,
      <<<<"m", "a", "r", "y", "l", "a", "n", "d">>, <<"M", "D">>>>,
      <<<<"m", "a", "s", "s", "a", "c", "h", "u", "s", "e", "t", "t", "s">>, <<"M", "A">>>>,
      <<<<"m", "i", "c", "h", "i", "g", "a", "n">>, <<"M", "I">>>>,
      <<<<"m", "i", "n", "n", "e", "s", "o", "t", "a">>, <<"M", "N">>>>,
      <<<<"m", "i", "s", "s", "i", "s", "s", "i", "p", "p", "i">>, <<"M", "S">>>>,
      <<<<"m", "i", "s", "s", "o", "u", "r", "i">>, <<"M", "O">>>>,
      <<<<"m", "o", "n", "t", "a", "n", "a">>, <<"M", "T">>>>,
      <<<<"n", "e", "b", "r", "a", "s", "k", "a">>, <<"N", "E">>>>,
      <<<<"n", "e", "v", "a", "d", "a">>, <<"N", "V">>>>,
      <<<<"n", "e", "w", " ", "h", "a", "m", "p", "s", "h", "i", "r", "e">>, <<"N", "H">>>>,
      <<<<"n", "e", "w", " ", "j", "e", "r", "s", "e", "y">>, <<"N", "J">>>>,
      <<<<"n", "e", "w", " ", "m", "e", "x", "i", "c", "o">>, <<"N", "M">>>>,
      <<<<"n", "e", "w", " ", "y", "o", "r", "k">>, <<"N", "Y">>>>,
      <<<<"n", "o", "r", "t", "h", " ", "c", "a", "r", "o", "l", "i", "n", "a">>, <<"N", "C">>>>,
      <<<<"n", "o", "r", "t", "h", " ", "d", "a", "k", "o", "t", "a">>, <<"N", "D">>>>,
      <<<<"o", "h", "i", "o">>, <<"O", "H">>>>,
      <<<<"o", "k", "l", "a", "h", "o", "m", "a">>, <<"O", "K">>>>,
      <<<<"o", "r", "e", "g", "o", "n">>, <<"O", "R">>>>,
      <<<<"p", "e", "n", "n", "s", "y", "l", "v", "a", "n", "i", "a">>, <<"P", "A">>>>,
      <<<<"r", "h", "o", "d", "e", " ", "i", "s", "l", "a", "n", "d">>, <<"R", "I">>>>,
      <<<<"s", "o", "u", "t", "h", " ", "c", "a", "r", "o", "l", "i", "n", "a">>, <<"S", "C">>>>,
      <<<<"s", "o", "u", "t", "h", " ", "d", "a", "k", "o", "t", "a">>, <<"S", "D">>>>,
      <<<<"t", "e", "n", "n", "e", "s", "s", "e", "e">>, <<"T", "N">>>>,
      <<<<"t", "e", "x", "a", "s">>, <<"T", "X">>>>,
      <<<<"u", "t", "a", "h">>, <<"U", "T">>>>,
      <<<<"v", "e", "r", "m", "o", "n", "t">>, <<"V", "T">>>>,
      <<<<"v", "i", "r", "g", "i", "n", "i", "a">>, <<"V", "A">>>>,
      <<<<"w", "a", "s", "h", "i", "n", "g", "t", "o", "n">>, <<"W", "A">>>>,
      <<<<"w", "e", "s", "t", " ", "v", "i", "r", "g", "i", "n", "i", "a">>, <<"W", "V">>>>,
      <<<<"w", "i", "s", "c", "o", "n", "s", "i", "n">>, <<"W", "I">>>>,
      <<<<"w", "y", "o", "m", "i", "n", "g">>, <<"W", "Y">>>>,
      <<<<"d", "i", "s", "t", "r", "i", "c", "t", " ", "o", "f", " ", "c", "o", "l", "u", "m", "b", "i", "a">>, <<"D", "C">>>> }

\* Lines 1390-1397 on one cell of the state column; None is the null cell.
to_code(cell, dtype) ==
    LET s == Strip(CellAsStr(cell, dtype))
        key == KeepOnly(Lower(s), LowerLetters)
    IN  IF cell.t = "nan" THEN NaN
        ELSE IF Len(s) = 2 /\ IsAlpha(s) THEN Str(Upper(s))
        ELSE IF \E e \in StateMapSimple : e[1] = key
        THEN Str((CHOOSE e \in StateMapSimple : e[1] = key)[2])
        ELSE NaN

LStateForMap == <<"_", "s", "t", "a", "t", "e", "_", "f", "o", "r", "_", "m", "a", "p">>

LStateCode == <<"_", "s", "t", "a", "t", "e", "_", "c", "o", "d", "e">>

\* df[label] = values: a new last column, or the column of that label replaced.
SetColumn(t, col) ==
    IF HasLabel(t, col.label)
    THEN [t EXCEPT !.columns = MapSeq(t.columns, LAMBDA c : IF c.label = col.label THEN col ELSE c)]
    ELSE [t EXCEPT !.columns = Append(t.columns, col)]

\* plot_state_heatmap() on the table loaded_data holds for "Participation by
\* State": what it puts on the page and what that table holds afterwards.
plot_state_heatmap(t) ==
    IF t.kind = "none" \/ IsEmpty(t)
    THEN [ui |-> "warning: not loaded or empty", df |-> t]
    ELSE IF StateCol(t) = 0
    THEN [ui |-> "warning: no state column", df |-> t]
    ELSE IF AgenciesCol(t) = 0
    THEN [ui |-> "warning: no numeric column", df |-> t]
    ELSE LET t1 == [t EXCEPT !.columns[AgenciesCol(t)] = HeatmapCoerce(t.columns[AgenciesCol(t)])]
             state == t1.columns[StateCol(t)]
             t2 == SetColumn(t1, Column(LStateForMap, "object",
                                        MapSeq(state.cells, LAMBDA c : maybe_state_code(c, state.dtype))))
             codes == MapSeq(state.cells, LAMBDA c : to_code(c, state.dtype))
             t3 == SetColumn(t2, Column(LStateCode, "object", codes))
         IN  [ui |-> IF \A i \in 1..Len(codes) : codes[i] = NaN
                     THEN "warning: no valid state codes"
                     ELSE "choropleth",
              df |-> t3]

\* two-letter codes in either case, and a name that is no state
PCodes == [dtype |-> "object", cells |-> <<Str(<<"a", "l">>), Str(<<"T", "X">>), Str(<<"G", "u", "a", "m">>)>>]

ChartPatterns == {PStates, PCodes, PThousands, PFloat, PIntDup, PNulls}

LAgencies == <<"A", "g", "e", "n", "c", "i", "e", "s">>

ChartHeaders ==
    {h \in { <<LState>>,
             <<LPopulation>>,
             <<LState, LAgencies>>,
             <<LState, LPopulation>>,
             <<LId, LState>>,
             <<LId, LState, LPopulation>> } : Len(h) <= MaxCols}

\* The files behind the tables that reach the chart functions.
ChartInputs ==
    UNION { { RawTable(h, choice, n) : choice \in [1..Len(h) -> ChartPatterns], n \in 0..MaxRows } :
            h \in ChartHeaders }

InitCharts ==
    /\ hasInt64Index \in BOOLEAN
    /\ df \in ChartInputs
    /\ pc = "start"
    /\ result = Pending
    /\ result2 = Pending
    /\ source = "none"
    /\ reads = <<>>
    /\ loaded = Pending
    /\ ui = "nothing"
    /\ idCol = <<>>
    /\ NoCacheUse
    /\ NoPageUse

\* The id columns the pages ask for: a column of the table, or "State".
IdCols(t) == {t.columns[k].label : k \in 1..NCols(t)} \cup {LState}

\* A page hands the table of loaded_data to create_interactive_chart.
CreateInteractiveChart ==
    /\ pc = "loaded"
    /\ loaded.kind = "frame"
    /\ \E id_col \in IdCols(loaded) :
          /\ loaded' = create_interactive_chart(loaded, id_col).df
          /\ ui' = create_interactive_chart(loaded, id_col).ui
          /\ idCol' = id_col
    /\ pc' = "rendered"
    /\ UNCHANGED <<hasInt64Index, df, result, result2, source, reads, cacheVars, pageVars>>

\* A page calls plot_state_heatmap, which takes its table from loaded_data.
PlotStateHeatmap ==
    /\ pc = "loaded"
    /\ loaded.kind = "frame"
    /\ loaded' = plot_state_heatmap(loaded).df
    /\ ui' = plot_state_heatmap(loaded).ui
    /\ pc' = "rendered"
    /\ UNCHANGED <<hasInt64Index, df, result, result2, source, reads, idCol, cacheVars, pageVars>>

NextCharts == LoadCsv \/ CreateInteractiveChart \/ PlotStateHeatmap

SpecCharts == InitCharts /\ [][NextCharts]_vars


(***************************************************************************)
(* load_csv behind @st.cache_data, called by the script runs of several    *)
(* sessions (line 252 runs in every run of the script).  st.cache_data     *)
(* keys an entry by the arguments of the call, looks the entry up, and on  *)
(* a miss takes the compute lock of that key, looks again, runs the body   *)
(* and stores what it returned; what the body raises is passed on to the   *)
(* caller and not stored.                                                  *)
(***************************************************************************)
MaxSessions == 2

MaxCalls == 3

MaxChanges == 1

FileNames == {"crime.csv", "arrests.csv"}

Sessions == 1..MaxSessions

\* a file whose labels clean to different strings
FStates == RawTable(<<LState, LPopulation>>, <<PStates, PThousands>>, 2)

\* the same file with other figures
FStatesRevised == RawTable(<<LState, LPopulation>>, <<PStates, PFloat>>, 2)

\* a file with two labels that clean to the same string
FEqualLabels == RawTable(<<LAqB, LAdB>>, <<PIds, PIds>>, 1)

File(state, content) == [state |-> state, content |-> content]

FileStates ==
    { File("missing", None), File("unreadable", None), File("latin1", FStates) }
        \cup { File("utf8", c) : c \in {FStates, FStatesRevised, FEqualLabels} }

Idle == [pc |-> "idle", key |-> "none"]

InitCache ==
    /\ hasInt64Index \in BOOLEAN
    /\ df = None
    /\ pc = "cache"
    /\ result = Pending
    /\ result2 = Pending
    /\ source = "none"
    /\ reads = <<>>
    /\ loaded = Pending
    /\ ui = "nothing"
    /\ idCol = <<>>
    /\ NoPageUse
    /\ files \in [FileNames -> FileStates]
    /\ cache = [k \in FileNames |-> Pending]
    /\ lock = [k \in FileNames |-> 0]
    /\ session = [s \in Sessions |-> Idle]
    /\ computed = [k \in FileNames |-> 0]
    /\ returned = [k \in FileNames |-> {}]
    /\ ncalls = 0
    /\ nchanges = 0

tableVars == <<hasInt64Index, df, pc, result, result2, source, reads, loaded, ui, idCol>>

\* A session calls load_csv(name) and the entry is there: the caller gets it.
CacheHit(s, k) ==
    /\ session[s].pc = "idle"
    /\ ncalls < MaxCalls
    /\ cache[k].kind # "pending"
    /\ ncalls' = ncalls + 1
    /\ returned' = [returned EXCEPT ![k] = @ \cup {cache[k]}]
    /\ UNCHANGED <<tableVars, pageVars, files, cache, lock, session, computed, nchanges>>

\* A session calls load_csv(name) and there is no entry: it goes for the lock.
CacheMiss(s, k) ==
    /\ session[s].pc = "idle"
    /\ ncalls < MaxCalls
    /\ cache[k].kind = "pending"
    /\ ncalls' = ncalls + 1
    /\ session' = [session EXCEPT ![s] = [pc |-> "miss", key |-> k]]
    /\ UNCHANGED <<tableVars, pageVars, files, cache, lock, computed, returned, nchanges>>

\* The session gets the lock and finds the entry another session has stored.
LockedHit(s) ==
    /\ session[s].pc = "miss"
    /\ lock[session[s].key] = 0
    /\ cache[session[s].key].kind # "pending"
    /\ returned' = [returned EXCEPT ![session[s].key] = @ \cup {cache[session[s].key]}]
    /\ session' = [session EXCEPT ![s] = Idle]
    /\ UNCHANGED <<tableVars, pageVars, files, cache, lock, computed, ncalls, nchanges>>

\* The session gets the lock and there is still no entry: it keeps the lock.
LockedMiss(s) ==
    /\ session[s].pc = "miss"
    /\ lock[session[s].key] = 0
    /\ cache[session[s].key].kind = "pending"
    /\ lock' = [lock EXCEPT ![session[s].key] = s]
    /\ session' = [session EXCEPT ![s] = [pc |-> "computing", key |-> session[s].key]]
    /\ UNCHANGED <<tableVars, pageVars, files, cache, computed, returned, ncalls, nchanges>>

\* The body of load_csv runs on the file as it is now; a table is stored and
\* returned, an exception is passed on; the lock is released.
Compute(s) ==
    /\ session[s].pc = "computing"
    /\ LET k == session[s].key
           value == load_csv(files[k].state, files[k].content)
       IN  /\ computed' = [computed EXCEPT ![k] = @ + 1]
           /\ cache' = IF value.kind = "frame" THEN [cache EXCEPT ![k] = value] ELSE cache
           /\ returned' = [returned EXCEPT ![k] = @ \cup {value}]
           /\ lock' = [lock EXCEPT ![k] = 0]
    /\ session' = [session EXCEPT ![s] = Idle]
    /\ UNCHANGED <<tableVars, pageVars, files, ncalls, nchanges>>

\* The file of a name is replaced, removed or created between calls.
ChangeFile(k) ==
    /\ nchanges < MaxChanges
    /\ nchanges' = nchanges + 1
    /\ \E f \in FileStates \ {files[k]} : files' = [files EXCEPT ![k] = f]
    /\ UNCHANGED <<tableVars, pageVars, cache, lock, session, computed, returned, ncalls>>

NextCache ==
    \/ \E s \in Sessions, k \in FileNames : CacheHit(s, k)
    \/ \E s \in Sessions, k \in FileNames : CacheMiss(s, k)
    \/ \E s \in Sessions : LockedHit(s)
    \/ \E s \in Sessions : LockedMiss(s)
    \/ \E s \in Sessions : Compute(s)
    \/ \E k \in FileNames : ChangeFile(k)

SpecCache == InitCache /\ [][NextCache]_vars

(***************************************************************************)
(* Vocabulary of the properties                                            *)
(***************************************************************************)
\* A call of clean_dataframe on a raw table has returned or raised.
Called == pc \in {"cleaned", "recleaned"}

Returned == Called /\ result.kind = "frame"

\* The raw table has at least one row and one column.
NonEmptyInput == df.kind = "frame" /\ ~IsEmpty(df)

\* The raw columns that survive header cleaning and unnamed-column removal.
KeptRaw == DropUnnamed(CleanLabels(df.columns))

\* The column of table t that carries the label.
ColumnOf(t, label) == t.columns[CHOOSE k \in 1..NCols(t) : t.columns[k].label = label]

\* The match-value of a raw cell: commas and surrounding whitespace removed,
\* then everything but digits, "." and "-" removed.
MatchValue(cell) == KeepOnly(Strip(DropCommas(CellAsStr(cell, "object"))), MatchChars)

\* A raw cell that is neither null nor blank.
NonBlank(cell) == cell.t = "str" /\ Strip(DropCommas(cell.s)) # <<>>

\* The number a well-formed match-value denotes, in tenths.
NumberOf(mv) ==
    LET neg == Head(mv) = "-"
        u == IF neg THEN Tail(mv) ELSE mv
        ip == IF HasDot(u) THEN SubSeq(u, 1, DotPos(u) - 1) ELSE u
        fp == IF HasDot(u) THEN SubSeq(u, DotPos(u) + 1, Len(u)) ELSE <<"0">>
        mag == 10 * DigitsVal(ip) + DigitVal(fp[1])
    IN  IF neg THEN -mag ELSE mag

\* The raw text columns whose cleaned label is a column of the result.
TextColumnsInResult ==
    LET kept == KeptRaw
    IN  {k \in 1..Len(kept) : kept[k].dtype = "object" /\ HasLabel(result, kept[k].label)}

(***************************************************************************)
(* C1: for every input (None, an empty table, any non-empty raw table,     *)
(* labels that become equal after cleaning included) clean_dataframe       *)
(* returns a table and raises nothing, also when load_csv calls it.        *)
(* The code raises AttributeError on equal cleaned labels.                 *)
(***************************************************************************)
C1_NeverRaises ==
    /\ (Called => result.kind = "frame")
    /\ (pc = "loaded" => loaded.kind = "frame")

(***************************************************************************)
(* C2: a text column is converted to numeric if and only if, among its     *)
(* non-null, non-blank cells, at least half have a well-formed match-value *)
(* (so "Alabama", "Alaska", "1" stays text).  The code leaves out of the   *)
(* count the cells whose match-value is empty.                             *)
(***************************************************************************)
HalfOfNonBlankLookNumeric(col) ==
    LET nonblank == {i \in 1..Len(col.cells) : NonBlank(col.cells[i])}
        numeric == {i \in nonblank : MatchesNumber(MatchValue(col.cells[i]))}
    IN  nonblank # {} /\ 2 * Cardinality(numeric) >= Cardinality(nonblank)

C2_CoercedIffHalfNumeric ==
    Returned =>
        \A k \in TextColumnsInResult :
            IsNumericColumn(ColumnOf(result, KeptRaw[k].label))
                <=> HalfOfNonBlankLookNumeric(KeptRaw[k])

(***************************************************************************)
(* C3: in a column converted to numeric each cell is the number parsed     *)
(* from its match-value ("1,234" gives 1234.0, "x1" gives 1.0), the ratio  *)
(* being taken on the match-values; as first stated, every cell whose      *)
(* match-value is empty or not a well-formed number becomes null.          *)
(***************************************************************************)
\* The raw text columns that the result holds as numeric columns.
CoercedColumns ==
    LET kept == KeptRaw
    IN  {k \in TextColumnsInResult : IsNumericColumn(ColumnOf(result, kept[k].label))}

\* The result's column for raw column k.
OutColumn(k) == ColumnOf(result, KeptRaw[k].label)

\* A well-formed match-value of the raw cell gives its number in the result.
ParsedFromMatchValue(rawcell, outcell) ==
    LET mv == MatchValue(rawcell)
    IN  MatchesNumber(mv) => outcell = Num(NumberOf(mv))

\* The statement as first made: null unless the match-value is well formed.
C3_MalformedBecomesNull ==
    Returned =>
        \A k \in CoercedColumns :
            LET raw == KeptRaw[k].cells
                out == OutColumn(k).cells
            IN  \A i \in 1..NRows(result) :
                    /\ ParsedFromMatchValue(raw[i], out[i])
                    /\ ~MatchesNumber(MatchValue(raw[i])) => out[i] = NaN

\* The scenarios: Population1 and the column that is numeric once stripped.
C3_Scenarios ==
    /\ (df = RawTable(<<LPopulation>>, <<PThousands>>, 3) =>
            result.columns = <<Column(LPopulation, "float64",
                                      <<Num(Whole(1234)), Num(Whole(5678)), NaN>>)>>)
    /\ (df = RawTable(<<LPopulation>>, <<PStripped>>, 3) =>
            result.columns = <<Column(LPopulation, "int64",
                                      <<Num(Whole(1)), Num(Whole(2)), Num(Whole(1))>>)>>)

\* C3 as amended: null exactly when pd.to_numeric rejects the match-value; a
\* match-value with a leading or trailing decimal point ("1.") fails the
\* pattern and still becomes its number.
C3_ParsedOrNull ==
    Returned =>
        /\ \A k \in CoercedColumns :
              LET raw == KeptRaw[k].cells
                  out == OutColumn(k).cells
              IN  \A i \in 1..NRows(result) :
                      LET mv == MatchValue(raw[i])
                      IN  /\ ParsedFromMatchValue(raw[i], out[i])
                          /\ (mv = <<>> \/ ~IsUnsignedLiteral(IF Head(mv) = "-" THEN Tail(mv) ELSE mv))
                                <=> out[i] = NaN
        /\ C3_Scenarios

\* A converted column holds a comma-separated number, a cell that is numeric
\* only once stripped, and a cell turned to null.
C3_Witness ==
    /\ Returned
    /\ \E k \in CoercedColumns :
          /\ \E i \in 1..NRows(result) :
                /\ \E j \in 1..Len(KeptRaw[k].cells[i].s) : KeptRaw[k].cells[i].s[j] = ","
                /\ OutColumn(k).cells[i].t = "num"
          /\ \E i \in 1..NRows(result) : OutColumn(k).cells[i] = NaN

(***************************************************************************)
(* C4: for a non-empty raw table the result has as many rows as the input, *)
(* in the input's order: every column keeps one cell per row, a text       *)
(* column keeps its cells in place and a converted cell is the number of   *)
(* the raw cell of the same row, or null.                                  *)
(***************************************************************************)
C4_RowsPreserved ==
    (Returned /\ NonEmptyInput) =>
        /\ NRows(result) = NRows(df)
        /\ \A k \in 1..NCols(result) : Len(result.columns[k].cells) = NRows(df)
        /\ \A k \in TextColumnsInResult :
              LET raw == KeptRaw[k].cells
                  out == OutColumn(k).cells
              IN  \A i \in 1..NRows(df) :
                      \/ out[i] = raw[i]
                      \/ out[i] = NaN
                      \/ out[i] = ToNumericCell(MatchValue(raw[i]))

\* A row with a cell that cannot be parsed is still there, its cell null.
C4_Witness ==
    /\ Returned /\ NonEmptyInput
    /\ NRows(df) = MaxRows
    /\ \E k \in CoercedColumns : \E i \in 1..NRows(df) :
          /\ KeptRaw[k].cells[i].t = "str"
          /\ MatchValue(KeptRaw[k].cells[i]) # <<>>
          /\ OutColumn(k).cells[i] = NaN

(***************************************************************************)
(* C5: when no index-like column is adopted (every kept column is still in *)
(* the result) the row index is exactly 1, 2, ..., N.                      *)
(***************************************************************************)
NotAdopted == Returned /\ Labels(result) = MapSeq(KeptRaw, LAMBDA c : c.label)

C5_SyntheticIndex ==
    NotAdopted => result.index = [i \in 1..NRows(result) |-> i]

\* An index-like candidate was there and failed a check.
C5_Witness ==
    /\ NotAdopted
    /\ NRows(result) = MaxRows
    /\ \E k \in 1..NCols(result) : IsIndexLike(result.columns[k].label)

(***************************************************************************)
(* C6: when the values of the first index-like column all parse, are all   *)
(* whole and are pairwise distinct, the result has exactly those integers, *)
(* in row order, as row index, and the column is gone from the columns.    *)
(* With a pandas that has no pd.Int64Index the call raises instead.        *)
(***************************************************************************)
\* The kept columns as the coercion loop leaves them.
CoercedKept == MapSeq(KeptRaw, CoerceColumn)

\* The first index-like column exists and passes the three checks.
CandidateQualifies ==
    /\ Called /\ NonEmptyInput
    /\ ~HasDuplicateLabel(KeptRaw)
    /\ IndexLikeCol(KeptRaw) # 0
    /\ LET conv == Conv(CoercedKept[IndexLikeCol(KeptRaw)])
       IN  /\ \A i \in 1..Len(conv) : conv[i].t = "num" /\ conv[i].v % 10 = 0
           /\ \A i, j \in 1..Len(conv) : i # j => conv[i].v # conv[j].v

C6_AdoptsIndexColumn ==
    CandidateQualifies =>
        /\ result.kind = "frame"
        /\ result.index = ConvInts(Conv(CoercedKept[IndexLikeCol(KeptRaw)]))
        /\ ~HasLabel(result, KeptRaw[IndexLikeCol(KeptRaw)].label)

(***************************************************************************)
(* C7: cleaning a cleaned table again gives the same table: same labels,   *)
(* same row index, same cells.  The code resets an adopted index, cleans   *)
(* a cleaned label again and empties a table left without columns.         *)
(***************************************************************************)
C7_Idempotent == pc = "recleaned" => result2 = result

(***************************************************************************)
(* C8: no column label of a returned table starts, once trimmed, with the  *)
(* unnamed-placeholder prefix "Unnamed".                                   *)
(***************************************************************************)
NoUnnamedLabel(t) ==
    t.kind = "frame" => \A k \in 1..NCols(t) : ~HasPrefix(Strip(t.columns[k].label), Unnamed)

C8_NoUnnamedColumns == NoUnnamedLabel(result) /\ NoUnnamedLabel(result2) /\ NoUnnamedLabel(loaded)

\* A raw placeholder label, padded with a blank, was dropped and another
\* column kept.
C8_Witness ==
    /\ Returned
    /\ NCols(result) > 0
    /\ \E k \in 1..NCols(df) :
          /\ HasPrefix(Strip(df.columns[k].label), Unnamed)
          /\ ~HasPrefix(df.columns[k].label, Unnamed)

(***************************************************************************)
(* C9: every column of a returned table is fully numeric (each cell a      *)
(* number or null) or fully text (each cell text or null), never mixed.    *)
(***************************************************************************)
FullyNumeric(col) == IsNumericColumn(col) /\ \A i \in 1..Len(col.cells) : col.cells[i].t \in {"num", "nan"}

FullyText(col) == col.dtype = "object" /\ \A i \in 1..Len(col.cells) : col.cells[i].t \in {"str", "nan"}

Unmixed(t) == t.kind = "frame" => \A k \in 1..NCols(t) : FullyNumeric(t.columns[k]) \/ FullyText(t.columns[k])

C9_NoMixedColumn == Unmixed(result) /\ Unmixed(result2) /\ Unmixed(loaded)

\* A converted column whose unparseable text cell became null, beside a column
\* left as text.
C9_Witness ==
    /\ Returned /\ NonEmptyInput
    /\ \E k \in CoercedColumns : \E i \in 1..NRows(df) :
          NonBlank(KeptRaw[k].cells[i]) /\ OutColumn(k).cells[i] = NaN
    /\ \E k \in 1..NCols(result) :
          /\ result.columns[k].dtype = "object"
          /\ \E i \in 1..NRows(df) : result.columns[k].cells[i].t = "str"

(***************************************************************************)
(* C10: None, a table without rows, and a file that is missing or cannot   *)
(* be read each give the empty table (no rows, no columns), not an error.  *)
(***************************************************************************)
C10_EmptyInputsGiveEmptyTable ==
    /\ (Called /\ (df.kind = "none" \/ NRows(df) = 0)) => result = EmptyFrame
    /\ (pc = "loaded" /\ (source \in {"missing", "unreadable"} \/ NRows(df) = 0)) =>
            loaded = EmptyFrame

\* A file with rows and columns that pd.read_csv cannot read in either encoding.
C10_Witness ==
    /\ pc = "loaded"
    /\ source = "unreadable"
    /\ reads = <<"utf-8", "latin-1">>
    /\ ~IsEmpty(df)
    /\ loaded = EmptyFrame

(***************************************************************************)
(* C11: two raw labels that clean to the same string ("A?B" and "A-B") are *)
(* not merged or dropped: the call completes and the result holds both     *)
(* columns.  The code raises AttributeError on them (see C1).              *)
(***************************************************************************)
C11_DuplicateLabelsKept ==
    (Called /\ NonEmptyInput /\ HasDuplicateLabel(KeptRaw)) =>
        /\ result.kind = "frame"
        /\ NCols(result) = Len(KeptRaw)
        /\ \A k \in 1..Len(KeptRaw) :
              /\ result.columns[k].label = KeptRaw[k].label
              /\ Len(result.columns[k].cells) = NRows(df)

(***************************************************************************)
(* C12: a column labelled with one of the index-like labels, in any letter *)
(* case and "Unnamed: 0" included, whose values are pairwise distinct      *)
(* integers becomes the row index and leaves the columns.  Stated for      *)
(* tables whose only index-like column it is and for a pandas that has     *)
(* pd.Int64Index, where C6 holds; "Unnamed: 0" is dropped at line 145      *)
(* before the index-like column is looked for.                             *)
(***************************************************************************)
\* The raw columns with cleaned labels, the unnamed ones included.
CleanedRaw == CleanLabels(df.columns)

DistinctIntegers(col) == Adoptable(Conv(CoerceColumn(col)))

C12_IndexLikeLabelsAdopted ==
    (hasInt64Index /\ Called /\ NonEmptyInput /\ ~HasDuplicateLabel(CleanedRaw)) =>
        \A k \in 1..Len(CleanedRaw) :
            ( /\ IsIndexLike(CleanedRaw[k].label)
              /\ \A j \in 1..Len(CleanedRaw) : j # k => ~IsIndexLike(CleanedRaw[j].label)
              /\ DistinctIntegers(CleanedRaw[k]) )
            => /\ result.kind = "frame"
               /\ result.index = ConvInts(Conv(CoerceColumn(CleanedRaw[k])))
               /\ ~HasLabel(result, CleanedRaw[k].label)

(***************************************************************************)
(* C13: a cleaned label has its line breaks and whitespace runs collapsed  *)
(* to single spaces, no leading or trailing whitespace, "-" in place of    *)
(* the mis-decoded dash and of every "?", and "11-15" in place of every    *)
(* "Nov-15" of the raw label; "Victims\nAge" gives "Victims Age" and       *)
(* "Nov-15" gives "11-15".                                                 *)
(***************************************************************************)
Nov15 == <<"N", "o", "v", "-", "1", "5">>

WellSpaced(s) ==
    /\ \A i \in 1..Len(s) : s[i] \in Whitespace => s[i] = " "
    /\ \A i \in 1..(Len(s) - 1) : ~(s[i] = " " /\ s[i + 1] = " ")
    /\ s # <<>> => (s[1] # " " /\ s[Len(s)] # " ")

CleanLabel(raw, out) ==
    /\ WellSpaced(out)
    /\ ~Contains(out, <<"?">>)
    /\ ~Contains(out, Dash)
    /\ ~Contains(raw, <<"?">>) => ~Contains(out, Nov15)
    /\ Len(SelectSeq(out, LAMBDA c : c = "-"))
         = Len(SelectSeq(raw, LAMBDA c : c \in {"-", "?"}))
             + Cardinality({i \in 1..(Len(raw) - Len(Dash) + 1) : SubSeq(raw, i, i + Len(Dash) - 1) = Dash})
    /\ SelectSeq(raw, LAMBDA c : c \notin Whitespace \cup {"?", "N", "o", "v", "1", "-"} /\ c \notin {Dash[1], Dash[2], Dash[3]})
         = SelectSeq(out, LAMBDA c : c \notin Whitespace \cup {"?", "N", "o", "v", "1", "-"})

\* The result has a column for every raw column, in order.
NothingDropped == Returned /\ NonEmptyInput /\ NCols(result) = NCols(df)

C13_HeaderCleaning ==
    /\ NothingDropped =>
          \A k \in 1..NCols(df) : CleanLabel(df.columns[k].label, result.columns[k].label)
    /\ (NothingDropped /\ Labels(df) = <<LVictimsAge>>) =>
          Labels(result) = << <<"V", "i", "c", "t", "i", "m", "s", " ", "A", "g", "e">> >>
    /\ (NothingDropped /\ Labels(df) \in {<<LNov15>>, <<LNovDash>>}) =>
          Labels(result) = << <<"1", "1", "-", "1", "5">> >>

\* A label with a tab, a run of blanks and blanks at both ends was cleaned.
C13_Witness ==
    /\ NothingDropped
    /\ Labels(df) = <<LSpaced>>
    /\ Labels(result) = << <<"A", " ", "B">> >>

C17_ReadAttempts ==
    pc = "loaded" =>
        /\ source = "missing" => (reads = <<>> /\ loaded = EmptyFrame)
        /\ source = "utf8" => reads = <<"utf-8">>
        /\ source = "latin1" => reads = <<"utf-8", "latin-1">>
        /\ source = "unreadable" => (reads = <<"utf-8", "latin-1">> /\ loaded = EmptyFrame)
        /\ source \in {"missing", "unreadable"} => loaded.kind = "frame"

\* The second read, as latin-1, succeeded and its rows were cleaned.
C17_Witness ==
    /\ pc = "loaded"
    /\ source = "latin1"
    /\ reads = <<"utf-8", "latin-1">>
    /\ loaded.kind = "frame"
    /\ NRows(loaded) = MaxRows

(***************************************************************************)
(* C19: only the first index-like column is a candidate, and all or        *)
(* nothing of it: when one of its values does not parse, is not whole or   *)
(* repeats, the rows are numbered 1..N, the candidate stays a column and   *)
(* no later index-like column becomes the index.                           *)
(***************************************************************************)
FirstCandidateFails ==
    /\ Returned
    /\ NonEmptyInput
    /\ IndexLikeCol(KeptRaw) # 0
    /\ ~DistinctIntegers(KeptRaw[IndexLikeCol(KeptRaw)])

C19_IndexAllOrNothing ==
    (Returned /\ NonEmptyInput) =>
        LET kept == KeptRaw
            first == IndexLikeCol(kept)
        IN  (first # 0 /\ ~DistinctIntegers(kept[first])) =>
                /\ result.index = [i \in 1..NRows(df) |-> i]
                /\ Labels(result) = MapSeq(kept, LAMBDA c : c.label)
                /\ NRows(result) = NRows(df)

\* The first candidate repeats a value and the second index-like column,
\* which holds distinct integers, was not tried.
C19_Witness ==
    /\ FirstCandidateFails
    /\ Labels(df) = <<LIndex, LId>>
    /\ NRows(df) = MaxRows
    /\ DistinctIntegers(KeptRaw[2])
    /\ Labels(result) = <<LIndex, LId>>

(***************************************************************************)
(* C20: the match-value of a cell keeps the digits, the decimal point and  *)
(* one leading minus sign; a minus sign elsewhere, as in "1-2" or          *)
(* "2020-21", is not part of it.  The code keeps every minus sign.         *)
(***************************************************************************)
\* The match-values the coercion loop computes for the raw text columns.
MatchValuesOf(col) == CleanedForMatch(col)

MinusSigns(s) == Len(SelectSeq(s, LAMBDA c : c = "-"))

C20_OnlyLeadingMinus ==
    (Called /\ df.kind = "frame") =>
        \A k \in 1..NCols(df) :
            LET mv == MatchValuesOf(df.columns[k])
            IN  \A i \in 1..Len(mv) : \A j \in 2..Len(mv[i]) : mv[i][j] # "-"

(***************************************************************************)
(* C20, amended: the match-value keeps the digits, the decimal point and   *)
(* every minus sign of the cell, so a cell with an inner minus sign is not *)
(* numeric: it counts against the ratio, and in a converted column it      *)
(* becomes null.                                                           *)
(***************************************************************************)
\* A text cell with a minus sign after its first digit.
InnerMinus(cell) ==
    /\ cell.t = "str"
    /\ \E i, j \in 1..Len(cell.s) : i < j /\ cell.s[i] \in DigitChars /\ cell.s[j] = "-"

C20_EveryMinusKept ==
    /\ (Called /\ df.kind = "frame") =>
          \A k \in 1..NCols(df) :
              LET col == df.columns[k]
                  mv == MatchValuesOf(col)
              IN  col.dtype = "object" =>
                      \A i \in 1..Len(mv) :
                          /\ col.cells[i].t = "str" => MinusSigns(mv[i]) = MinusSigns(col.cells[i].s)
                          /\ InnerMinus(col.cells[i]) => ~MatchesNumber(mv[i])
    /\ Returned =>
          LET kept == KeptRaw
          IN  \A k \in 1..Len(kept) :
                  (kept[k].dtype = "object" /\ HasLabel(result, kept[k].label)) =>
                      LET raw == kept[k]
                          out == ColumnOf(result, raw.label)
                      IN  /\ IsNumericColumn(out) =>
                                \A i \in 1..Len(raw.cells) :
                                    InnerMinus(raw.cells[i]) => out.cells[i] = NaN
                          /\ (\A i \in 1..Len(raw.cells) : InnerMinus(raw.cells[i])) => out = raw

\* A converted column holds a null where the raw cell was "1-2", and a
\* column of ranges stayed text.
C20_Witness ==
    /\ Returned
    /\ NRows(df) = MaxRows
    /\ \E k \in TextColumnsInResult :
          /\ IsNumericColumn(OutColumn(k))
          /\ InnerMinus(KeptRaw[k].cells[MaxRows])
          /\ OutColumn(k).cells[MaxRows] = NaN
          /\ OutColumn(k).cells[1].t = "num"

(***************************************************************************)
(* C18: a chart call leaves the table of loaded_data as it was: after      *)
(* create_interactive_chart or plot_state_heatmap ran on it, it has the    *)
(* same columns and the same cells, nulls included.  The code writes the   *)
(* re-parsed columns back into the table it was handed (lines 384-385:     *)
(* nulls become 0) and adds two columns to it (lines 1385 and 1399).       *)
(***************************************************************************)
C18_ChartsLeaveTablesUnchanged ==
    [][(pc = "loaded" /\ pc' = "rendered") => loaded' = loaded]_vars

(***************************************************************************)
(* C15: in one process every load_csv call with the same file name gives   *)
(* an equal table and the file is read and normalized at most once per     *)
(* name; the entry is keyed by the name, so a change of the file between   *)
(* calls changes nothing.  When the body raises (see C1) nothing is        *)
(* stored, and the next call reads and normalizes the file again.          *)
(***************************************************************************)
C15_LoadedOncePerName ==
    pc = "cache" =>
        \A k \in FileNames :
            /\ computed[k] <= 1
            /\ Cardinality(returned[k]) <= 1
            /\ \A v \in returned[k] : v.kind = "frame"

(***************************************************************************)
(* C16: when several sessions ask for the same name before an entry is     *)
(* there, the body runs at most once for that name: one session computes   *)
(* and stores, the others wait for the lock and use the entry.  A session  *)
(* whose computation raised (see C1) stores nothing, and the session that  *)
(* waited computes again.                                                  *)
(***************************************************************************)
\* The sessions that are computing the entry of name k.
Computing(k) == {s \in Sessions : session[s].pc = "computing" /\ session[s].key = k}

C16_ComputedOncePerKey ==
    pc = "cache" =>
        \A k \in FileNames :
            /\ Cardinality(Computing(k)) <= 1
            /\ computed[k] + Cardinality(Computing(k)) <= 1

(***************************************************************************)
(* C21: a column that is not converted stays text and holds the cleaned    *)
(* text: each cell is the input cell with the thousands separators and the *)
(* surrounding whitespace stripped; no text cell becomes null or a number. *)
(* The code leaves such a column as it was, commas and blanks included.    *)
(***************************************************************************)
\* The cell of step (a) for a raw cell; a null stays null.
CleanedCell(cell) == IF cell.t = "str" THEN Str(Strip(DropCommas(cell.s))) ELSE cell

AllBlank(col) == \A i \in 1..Len(col.cells) : ~NonBlank(col.cells[i])

C22_AllBlankStaysText ==
    (Returned /\ NonEmptyInput) =>
        LET kept == KeptRaw
        IN  \A k \in 1..Len(kept) :
                (kept[k].dtype = "object" /\ HasLabel(result, kept[k].label) /\ AllBlank(kept[k])) =>
                    ColumnOf(result, kept[k].label) = kept[k]

\* A column of a null, blanks and a lone comma came back as it was.
C22_Witness ==
    /\ Returned
    /\ Labels(df) = <<LState>>
    /\ NRows(df) = MaxRows
    /\ AllBlank(df.columns[1])
    /\ \E i \in 1..MaxRows : df.columns[1].cells[i].t = "str"
    /\ result.columns = df.columns

(***************************************************************************)
(* C23: the columns of a returned table are the input columns under their  *)
(* cleaned labels, in the input's order, without those whose cleaned label *)
(* starts with the unnamed placeholder and without the one index-like      *)
(* column when it became the row index; nothing else is removed, added or  *)
(* reordered.                                                              *)
(***************************************************************************)
\* The input columns under their cleaned labels, in order, whose label does
\* not start with the placeholder.
ExpectedColumns == SelectSeq(CleanedRaw, LAMBDA c : ~HasPrefix(c.label, Unnamed))

\* Sequence s without its k-th element.
Without(s, k) == [i \in 1..(Len(s) - 1) |-> IF i < k THEN s[i] ELSE s[i + 1]]

C23_ColumnsKeptInOrder ==
    (Returned /\ NonEmptyInput) =>
        LET columns == ExpectedColumns
            expected == MapSeq(columns, LAMBDA c : c.label)
        IN  \/ Labels(result) = expected
            \/ \E k \in 1..Len(expected) :
                  /\ IsIndexLike(expected[k])
                  /\ \A j \in 1..(k - 1) : ~IsIndexLike(expected[j])
                  /\ DistinctIntegers(columns[k])
                  /\ result.index = ConvInts(Conv(CoerceColumn(columns[k])))
                  /\ Labels(result) = Without(expected, k)

\* The id column became the index and only the other column is left.
C23_Witness ==
    /\ Returned
    /\ Labels(df) = <<LId, LState>>
    /\ NRows(df) = MaxRows
    /\ Labels(result) = <<LState>>
    /\ result.index # [i \in 1..MaxRows |-> i]

(***************************************************************************)
(* C26: in every returned table the row index has one entry per row, no    *)
(* null, and no entry twice, whether it was taken from a column or         *)
(* numbered 1..N.                                                          *)
(***************************************************************************)
ValidIndex(t) ==
    /\ \A k \in 1..NCols(t) : Len(t.columns[k].cells) = Len(t.index)
    /\ \A i \in 1..Len(t.index) : t.index[i] \in Int
    /\ \A i, j \in 1..Len(t.index) : i # j => t.index[i] # t.index[j]

C26_IndexOnePerRowDistinct ==
    /\ Returned => (ValidIndex(result) /\ (NonEmptyInput => Len(result.index) = NRows(df)))
    /\ (pc = "recleaned" /\ result2.kind = "frame") => ValidIndex(result2)
    /\ (pc = "loaded" /\ loaded.kind = "frame") => ValidIndex(loaded)

\* The index was taken from the second column, "ID".
C26_Witness ==
    /\ Returned
    /\ Labels(df) = <<LState, LIdUpper>>
    /\ NRows(df) = MaxRows
    /\ Labels(result) = <<LState>>
    /\ result.index # [i \in 1..MaxRows |-> i]
    /\ ValidIndex(result)

(***************************************************************************)
(* C27: cleaning a cleaned label changes nothing:                          *)
(* clean_colname(clean_colname(s)) = clean_colname(s) for every label,     *)
(* those with "?", with the mis-decoded dash and with "Nov" before one of  *)
(* them included.  The code replaces "Nov-15" before it replaces "?".      *)
(***************************************************************************)
C27_CleanColnameIdempotent ==
    (Called /\ df.kind = "frame") =>
        \A k \in 1..NCols(df) :
            clean_colname(clean_colname(df.columns[k].label)) = clean_colname(df.columns[k].label)

\* The table a chart call was handed: create_interactive_chart writes the
\* numeric columns back under their dtype, so emptiness, labels and numeric
\* columns of the table are those of before the call.
ChartCalled == pc = "rendered" /\ idCol # <<>>

HasNumericColumn(t) == \E k \in 1..NCols(t) : IsNumericColumn(t.columns[k])

ChartWarnings == {"warning: empty", "warning: missing column", "warning: no numeric columns"}

\* C24: create_interactive_chart issues a warning and draws no chart when the
\* table is empty, when the id column asked for is not among its columns, or
\* when it has no numeric column; it goes on to a chart function exactly when
\* all three checks pass.
C24_ChartOnlyWhenChecksPass ==
    ChartCalled =>
        /\ ui \in ChartWarnings \cup {"chart"}
        /\ IsEmpty(loaded) => ui = "warning: empty"
        /\ ~HasLabel(loaded, idCol) => ui \in ChartWarnings
        /\ ~HasNumericColumn(loaded) => ui \in ChartWarnings
        /\ ui = "chart" <=> (~IsEmpty(loaded) /\ HasLabel(loaded, idCol) /\ HasNumericColumn(loaded))

\* A call that met a table with numeric columns but not the id column asked for.
C24_Witness ==
    /\ ChartCalled
    /\ ~IsEmpty(loaded)
    /\ HasNumericColumn(loaded)
    /\ ~HasLabel(loaded, idCol)
    /\ ui = "warning: missing column"

(***************************************************************************)
(* agency_table_with_filters: the filtered, paginated agency table.  One   *)
(* user event starts one run of the script; st.rerun() ends that run and   *)
(* starts another one without an event.  The table has one text column of  *)
(* few distinct values and no numeric column, so the widgets the function  *)
(* builds are the full-text search box and one multiselect; the column     *)
(* chooser and the sort box stay at their defaults.  Keys that widgets own *)
(* in st.session_state are left out.                                       *)
(***************************************************************************)
MaxAgencyRows == 101

\* Row counts on both sides of the page sizes.
AgencySizes == {0, 1, 10, 11, 21, 51, MaxAgencyRows}

LAgencyType == <<"A", "g", "e", "n", "c", "y", " ", "T", "y", "p", "e">>

City == <<"C", "i", "t", "y">>

County == <<"C", "o", "u", "n", "t", "y">>

AgencyKinds == <<Str(City), Str(County), Str(City), NaN>>

\* The table load_csv gave for the agency file: rows labelled 1..n.
AgencyTable(n) ==
    Frame(<<Column(LAgencyType, "object", [i \in 1..n |-> AgencyKinds[((i - 1) % 4) + 1]])>>,
          RangeIndex(1, n + 1))

AgencyTables == {AgencyTable(n) : n \in AgencySizes}

\* The one element of a one-element set; {F(x) : x \in {e}} works e out once
\* however often F uses x.
Only(S) == CHOOSE x \in S : TRUE

\* st.session_state.get(key, default), st.session_state[key] = value, del.
Get(ss, key, default) == IF key \in DOMAIN ss THEN ss[key] ELSE default

Set(ss, key, value) == (key :> value) @@ ss

Del(ss, keys) == Only({[k \in DOMAIN f \ keys |-> f[k]] : f \in {ss}})

PageKey == "agency_page"

SizeKey == "agency_page_size"

SearchKey == "agency_filter_search"

CatKey == "agency_filter_cat__Agency Type"

ColumnsKey == "agency_filter__columns"

UnreadPageKey == "agency_filter__page"

\* The keys of this model that start with sess_prefix "agency_filter_".
PrefixedKeys == {SearchKey, CatKey, ColumnsKey, UnreadPageKey}

page_size_options == <<10, 20, 50, 100>>

PageSizes == {page_size_options[i] : i \in 1..Len(page_size_options)}

\* Lines 1007-1012: the keys that are missing get their defaults.
Defaults(ss) == ss @@ (PageKey :> 1) @@ (SizeKey :> 20) @@ ("agency_search" :> <<>>)

\* Lines 1077-1087: "Apply filters" stores what the widgets hold.
ApplyClicked(ss, search_val, sel) ==
    Set(Set(Set(ss, SearchKey, search_val), CatKey, sel), UnreadPageKey, 1)

\* Lines 1089-1097: "Reset filters" removes the prefixed keys.
ResetClicked(ss) == Set(Del(ss, PrefixedKeys \cup {"agency_filter__page_size"}), UnreadPageKey, 1)

\* re.compile refuses the pattern: a "(" that is never closed.
BadPattern(pat) ==
    \E i \in 1..Len(pat) : pat[i] = "(" /\ \A j \in (i + 1)..Len(pat) : pat[j] # ")"

\* The options of the multiselect: the distinct non-null values of the column.
Options(t) == {t.columns[1].cells[i].s : i \in {j \in 1..NRows(t) : t.columns[1].cells[j].t = "str"}}

\* Lines 1100-1135 (the table has no numeric column and no per-column search): the
\* positions of the rows that stay, in table order.
Filtered(t, ss) ==
    LET search_val == Strip(Get(ss, SearchKey, <<>>))
        sel == Get(ss, CatKey, {})
        objects == {k \in 1..NCols(t) : t.columns[k].dtype = "object"}
        \* the cells str.contains(search_val, case=False) finds, per column
        contains == [k \in objects |->
                       {c \in {t.columns[k].cells[i] : i \in 1..NRows(t)} :
                           Contains(Lower(CellAsStr(c, t.columns[k].dtype)), Lower(search_val))}]
        \* the cells isin(sel) finds, per column
        isin == [k \in objects |->
                   {c \in {t.columns[k].cells[i] : i \in 1..NRows(t)} : c.t = "str" /\ c.s \in sel}]
    IN  Only({ SelectSeq(RangeIndex(1, NRows(t) + 1),
                         LAMBDA i : /\ m.search => \E k \in objects : t.columns[k].cells[i] \in m.contains[k]
                                    /\ m.cat => \A k \in objects : t.columns[k].cells[i] \in m.isin[k]) :
               m \in {[search |-> search_val # <<>>, cat |-> sel # {}, contains |-> contains, isin |-> isin]} })

Max(a, b) == IF a >= b THEN a ELSE b

\* Line 1213.
TotalPages(total_rows, page_size_val) == Max(1, (total_rows + page_size_val - 1) \div page_size_val)

\* Lines 1216-1219 without the upper clamp.
ClampPage_NoUpper(page, total_pages) == IF page < 1 THEN 1 ELSE page

\* Lines 1216-1219.
ClampPage(page, total_pages) ==
    IF page < 1 THEN 1 ELSE IF page > total_pages THEN total_pages ELSE page

\* Lines 1222-1228 with every page labelled from 1.
PageDf_LabelsFromOne(display, page, page_size_val) ==
    LET start_idx == (page - 1) * page_size_val
        end_idx == Min({start_idx + page_size_val, Len(display)})
        rows == SubSeq(display, start_idx + 1, end_idx)
    IN  [rows |-> rows, index |-> RangeIndex(1, 1 + Len(rows))]

\* Lines 1222-1228: the slice of the page and its row labels.
PageDf(display, page, page_size_val) ==
    LET start_idx == (page - 1) * page_size_val
        end_idx == Min({start_idx + page_size_val, Len(display)})
        rows == SubSeq(display, start_idx + 1, end_idx)
    IN  [rows |-> rows, index |-> RangeIndex(start_idx + 1, start_idx + 1 + Len(rows))]

\* Lines 1306-1308 without the reset of the page.
PageSizeChosen_KeepsPage(ss, new_page_size) == Set(ss, SizeKey, new_page_size)

\* Lines 1306-1308.
PageSizeChosen(ss, new_page_size) == Set(Set(ss, SizeKey, new_page_size), PageKey, 1)

\* What one run of the script put on the page.
Render(kind, page, page_size_val, total_rows, total_pages, page_df) ==
    [kind |-> kind, page |-> page, page_size |-> page_size_val,
     total_rows |-> total_rows, total_pages |-> total_pages,
     rows |-> page_df.rows, index |-> page_df.index,
     prev_disabled |-> page <= 1, next_disabled |-> page >= total_pages]

NoPageDf == [rows |-> <<>>, index |-> <<>>]

\* Lines 1077-1097: the two filter buttons.
Clicked(ss, ev) ==
    IF ev.kind = "apply" THEN ApplyClicked(ss, ev.search, ev.sel)
    ELSE IF ev.kind = "reset" THEN ResetClicked(ss)
    ELSE ss

\* Lines 1200-1230: the page size, the number of pages, the page clamped
\* into them, and the slice that is shown.
Paginate(ss, display) ==
    LET page_size_val == IF ss[SizeKey] \in PageSizes THEN ss[SizeKey] ELSE 20
        total_rows == Len(display)
        total_pages == TotalPages(total_rows, page_size_val)
        page == ClampPage(ss[PageKey], total_pages)
    IN  [ss |-> Set(Set(ss, SizeKey, page_size_val), PageKey, page),
         out |-> IF total_rows > 0
                 THEN Render("table", page, page_size_val, total_rows, total_pages,
                             PageDf(display, page, page_size_val))
                 ELSE Render("info", page, page_size_val, total_rows, total_pages, NoPageDf)]

\* Lines 1263-1309: the navigation controls, in the order the script meets
\* them; the first that changes the session state ends the run in st.rerun().
Controls(ss, ev, out) ==
    IF ev.kind = "previous"
    THEN [ss |-> Set(ss, PageKey, ss[PageKey] - 1), out |-> out, rerun |-> TRUE]
    ELSE IF ev.kind = "goto" /\ ev.page # ss[PageKey]
    THEN [ss |-> Set(ss, PageKey, ev.page), out |-> out, rerun |-> TRUE]
    ELSE IF ev.kind = "next"
    THEN [ss |-> Set(ss, PageKey, ss[PageKey] + 1), out |-> out, rerun |-> TRUE]
    ELSE IF ev.kind = "size" /\ ev.size # ss[SizeKey]
    THEN [ss |-> PageSizeChosen(ss, ev.size), out |-> out, rerun |-> TRUE]
    ELSE [ss |-> ss, out |-> out, rerun |-> FALSE]

\* Lines 1100-1309 with the session state ss the filter buttons left.
FilteredView(t, ss, ev) ==
    IF BadPattern(Strip(Get(ss, SearchKey, <<>>)))
    THEN [ss |-> ss, out |-> Render("exception", 0, 0, 0, 0, NoPageDf), rerun |-> FALSE]
    ELSE Only({ Controls(p.ss, ev, p.out) :
                p \in {Paginate(Set(ss, ColumnsKey, Labels(t)), Filtered(t, ss))} })

\* One run of the script through agency_table_with_filters(t) with the event
\* ev: the session state it leaves, what it rendered, and whether it ended
\* in st.rerun().
ScriptRun(t, ss0, ev) ==
    IF t.kind = "none" \/ IsEmpty(t)
    THEN [ss |-> ss0, out |-> Render("warning", 0, 0, 0, 0, NoPageDf), rerun |-> FALSE]
    ELSE Only({ FilteredView(t, ss, ev) : ss \in {Clicked(Defaults(ss0), ev)} })

\* What the search box can hold when "Apply filters" is clicked.
Searches ==
    { <<>>, <<" ", "c", " ">>, <<"n", "a">>, <<"z", "z">>, <<"(">> }

InitPages ==
    /\ hasInt64Index = FALSE
    /\ df = None
    /\ pc = "agency"
    /\ result = Pending
    /\ result2 = Pending
    /\ source = "none"
    /\ reads = <<>>
    /\ loaded = Pending
    /\ ui = "nothing"
    /\ idCol = <<>>
    /\ NoCacheUse
    /\ agency \in AgencyTables
    /\ session_state = <<>>
    /\ event = NoEvent
    /\ renders = <<>>

LastRender == renders[Len(renders)]

\* The run the event starts, and the run st.rerun() starts after it.
UserEvent(ev) ==
    \E first \in {ScriptRun(agency, session_state, ev)} :
        /\ IF first.rerun
           THEN \E second \in {ScriptRun(agency, first.ss, NoEvent)} :
                   /\ session_state' = second.ss
                   /\ renders' = <<first.out, second.out>>
           ELSE /\ session_state' = first.ss
                /\ renders' = <<first.out>>
        /\ event' = ev
        /\ UNCHANGED <<tableVars, cacheVars, agency>>

\* The filter widgets are on the page.
FiltersShown == renders # <<>> /\ LastRender.kind \in {"table", "info", "exception"}

\* The navigation controls are on the page.
ControlsShown == renders # <<>> /\ LastRender.kind \in {"table", "info"}

\* The user opens the agency page.
OpenPage ==
    /\ pc = "agency"
    /\ renders = <<>>
    /\ UserEvent([NoEvent EXCEPT !.kind = "open"])

\* The user changes a filter widget without applying, or comes back to the page.
EditWidget ==
    /\ FiltersShown
    /\ UserEvent([NoEvent EXCEPT !.kind = "edit"])

ApplyFilters ==
    /\ FiltersShown
    /\ \E search_val \in Searches, sel \in SUBSET Options(agency) :
          UserEvent([NoEvent EXCEPT !.kind = "apply", !.search = search_val, !.sel = sel])

ResetFilters ==
    /\ FiltersShown
    /\ UserEvent([NoEvent EXCEPT !.kind = "reset"])

PreviousPage ==
    /\ ControlsShown
    /\ ~LastRender.prev_disabled
    /\ UserEvent([NoEvent EXCEPT !.kind = "previous"])

GoToPage ==
    /\ ControlsShown
    /\ \E new_page \in 1..LastRender.total_pages :
          UserEvent([NoEvent EXCEPT !.kind = "goto", !.page = new_page])

NextPage ==
    /\ ControlsShown
    /\ ~LastRender.next_disabled
    /\ UserEvent([NoEvent EXCEPT !.kind = "next"])

ChoosePageSize ==
    /\ ControlsShown
    /\ \E new_page_size \in PageSizes :
          UserEvent([NoEvent EXCEPT !.kind = "size", !.size = new_page_size])

NextPages ==
    \/ OpenPage
    \/ EditWidget
    \/ ApplyFilters
    \/ ResetFilters
    \/ PreviousPage
    \/ GoToPage
    \/ NextPage
    \/ ChoosePageSize

SpecPages == InitPages /\ [][NextPages]_vars

\* A run that got as far as the paginated table (or its "No data" note).
Paged(r) == r.kind \in {"table", "info"}

\* C25: after a click on "Apply filters" or on "Reset filters" the page of
\* the table that is displayed is page 1, whatever page was shown before.
C25_PageOneAfterApplyOrReset ==
    (event.kind \in {"apply", "reset"} /\ Paged(LastRender)) => LastRender.page = 1

\* The least number of pages of page_size rows that hold total_rows rows.
CeilPages(total_rows, page_size_val) ==
    CHOOSE n \in 0..total_rows : n * page_size_val >= total_rows /\ (n = 0 \/ (n - 1) * page_size_val < total_rows)

\* C28: in every render the page that slices the table lies in
\* 1..total_pages, total_pages is max(1, ceil(total_rows / page_size)), the
\* page size is one of 10, 20, 50, 100, Previous is disabled on page 1 and
\* Next on the last page.
C28_PageWithinRange ==
    \A i \in 1..Len(renders) :
        Paged(renders[i]) =>
            LET r == renders[i]
            IN  /\ r.page_size \in {10, 20, 50, 100}
                /\ r.total_pages = Max(1, CeilPages(r.total_rows, r.page_size))
                /\ 1 <= r.page /\ r.page <= r.total_pages
                /\ r.page = 1 => r.prev_disabled
                /\ r.page = r.total_pages => r.next_disabled
                /\ r.rows = SubSeq(Filtered(agency, session_state), (r.page - 1) * r.page_size + 1,
                                   Min({r.page * r.page_size, r.total_rows}))

\* Filters applied on a later page left fewer pages than the page shown
\* before, and the table now shows its last page.
C28_Witness ==
    /\ event.kind = "apply"
    /\ Paged(LastRender)
    /\ LastRender.total_pages >= 2
    /\ LastRender.total_pages < TotalPages(NRows(agency), LastRender.page_size)
    /\ LastRender.page = LastRender.total_pages
    /\ LastRender.next_disabled
    /\ ~LastRender.prev_disabled

\* C29: choosing a rows-per-page value other than the current one sets the
\* page to 1 and the render that follows uses the new size; choosing the
\* current value changes nothing.
C29_PageSizeChange ==
    [][event'.kind = "size" =>
          IF event'.size # session_state[SizeKey]
          THEN /\ session_state'[PageKey] = 1
               /\ session_state'[SizeKey] = event'.size
               /\ Len(renders') = 2
               /\ renders'[2].page = 1
               /\ renders'[2].page_size = event'.size
               /\ renders'[1].page_size = session_state[SizeKey]
          ELSE /\ session_state' = session_state
               /\ renders' = <<LastRender>>]_vars

\* A new page size was chosen on a later page of a table that still has
\* several pages under the new size.
C29_Witness ==
    /\ event.kind = "size"
    /\ Len(renders) = 2
    /\ renders[1].page >= 2
    /\ renders[1].page_size # event.size
    /\ renders[2].page = 1
    /\ renders[2].page_size = event.size
    /\ renders[2].total_pages >= 2

RECURSIVE Concat(_)
Concat(ss) == IF ss = <<>> THEN <<>> ELSE Head(ss) \o Concat(Tail(ss))

\* C30: for the filtered table and the page size of the session, the pages
\* 1..total_pages hold every row exactly once and in table order, page p is
\* labelled (p-1)*page_size+1 .. (p-1)*page_size+len(page), the labels run
\* 1..total_rows across the pages, and the page on display is one of them.
C30_PagesPartitionRows ==
    (renders # <<>> /\ Paged(LastRender)) =>
        LET display == Filtered(agency, session_state)
            size == session_state[SizeKey]
            total_pages == LastRender.total_pages
            pages == [p \in 1..total_pages |-> PageDf(display, p, size)]
        IN  /\ Concat([p \in 1..total_pages |-> pages[p].rows]) = display
            /\ Concat([p \in 1..total_pages |-> pages[p].index]) = RangeIndex(1, Len(display) + 1)
            /\ \A p \in 1..total_pages :
                  /\ Len(pages[p].index) = Len(pages[p].rows)
                  /\ \A j \in 1..Len(pages[p].rows) : pages[p].index[j] = (p - 1) * size + j
            /\ LastRender.rows = pages[LastRender.page].rows
            /\ LastRender.index = pages[LastRender.page].index

\* The last of at least three pages is on display and is not full.
C30_Witness ==
    /\ renders # <<>>
    /\ LastRender.kind = "table"
    /\ LastRender.total_pages >= 3
    /\ LastRender.page = LastRender.total_pages
    /\ Len(LastRender.rows) < LastRender.page_size
    /\ LastRender.index[1] = (LastRender.page - 1) * LastRender.page_size + 1
    /\ LastRender.total_rows < NRows(agency)

====
